---- MODULE Spec2Model ----
(***************************************************************************)
(* Model of excel_to_json.py: conversion of a directory of per-city job    *)
(* tables into one consolidated document {data, total, cities}.            *)
(*                                                                         *)
(* Text is modelled as a sequence of one-character tokens.  The Chinese    *)
(* characters the program tests for are written as pinyin tokens:          *)
(*   "li" "shu" "guan" "xi" "shi" "sheng"  for  隶 属 关 系 市 省.        *)
(* A table cell is either NaN (an empty cell, pd.isna) or the text that    *)
(* str() gives for the parsed cell value, which is never empty.            *)
(***************************************************************************)
EXTENDS Integers, Sequences, FiniteSets

\* ------------------------------------------------------------------------
\* Bounds of the model
\* ------------------------------------------------------------------------
MaxRows == 2
MaxFiles == 3

\* ------------------------------------------------------------------------
\* Text
\* ------------------------------------------------------------------------
SP == "sp"

NaN == <<"NaN">>

IsNa(cell) == cell = NaN

\* str(value): the text of a cell; str(float('nan')) is 'nan'
Str(cell) == IF IsNa(cell) THEN <<"n", "a", "n">> ELSE cell

RECURSIVE LStrip(_)
LStrip(s) == IF s = <<>> THEN s
             ELSE IF Head(s) = SP THEN LStrip(Tail(s)) ELSE s

RECURSIVE RStrip(_)
RStrip(s) == IF s = <<>> THEN s
             ELSE IF s[Len(s)] = SP THEN RStrip(SubSeq(s, 1, Len(s) - 1)) ELSE s

\* str.strip()
Strip(s) == RStrip(LStrip(s))

\* sub in s
Contains(s, sub) ==
    \E i \in 1..(Len(s) - Len(sub) + 1) : SubSeq(s, i, i + Len(sub) - 1) = sub

LiShu == <<"li", "shu">>
GuanXi == <<"guan", "xi">>

\* ['隶属', '市', '省']
HeaderLabels == {<<"li", "shu">>, <<"shi">>, <<"sheng">>}

\* row.iloc[k], k counted from 0
Iloc(row, k) == row[k + 1]

\* ------------------------------------------------------------------------
\* Tables: a row is a sequence of cells, a sheet a sequence of rows of one
\* width (the reader pads every row to the sheet's column count)
\* ------------------------------------------------------------------------

\* columns_map: the 14 column labels of the schema, by position 0..13
columns_map ==
    <<  <<"li", "shu", "guan", "xi">>, <<"H", "B">>, <<"H", "C">>, <<"H", "D">>,
        <<"H", "E">>, <<"H", "F">>, <<"H", "G">>, <<"H", "H">>, <<"H", "I">>,
        <<"H", "J">>, <<"H", "K">>, <<"H", "L">>, <<"H", "M">>, <<"H", "N">>  >>

NumFields == 14

ColTag == <<"A", "B", "C", "D", "E", "F", "G", "H", "I", "J", "K", "L", "M", "N", "O">>

\* Column counts of the input sheets: short tables, the schema's 14, and one
\* with a column beyond the schema
ColCounts == {6, 13, 14, 15}

\* A cell of a column other than 1, 5, 7: padded text, or empty in columns 3, 10
Filler(k) == IF k \in {3, 10} THEN NaN ELSE <<SP, ColTag[k], SP>>

FirstCells ==
    { NaN, <<SP, SP>>, <<"sheng", SP>>, <<"li", "shu", "guan", "xi">>, <<SP, "a">> }

\* <<unit-name cell, position-name cell>>
UnPnCells ==
    { <<NaN, <<SP>>>>, <<<<SP, "u", SP>>, <<SP>>>>,
      <<NaN, <<"p", SP>>>>, <<<<"u">>, <<"p">>>> }

DataRow(first, unpn, n) ==
    [k \in 1..n |-> IF k = 1 THEN first
                    ELSE IF k = 5 THEN unpn[1]
                    ELSE IF k = 7 THEN unpn[2]
                    ELSE Filler(k)]

RowSet(n) == { DataRow(first, unpn, n) : first \in FirstCells, unpn \in UnPnCells }

TitleRow(n) == [k \in 1..n |-> IF k = 1 THEN <<"t">> ELSE NaN]

HeaderRow(n) == [k \in 1..n |-> IF k <= NumFields THEN columns_map[k] ELSE NaN]

\* Layout "A": title, header in the default row (index 1), data.
\* Layout "B": title, a second title line, header one row lower, data.
Layout(kind, data, n) ==
    IF kind = "A" THEN <<TitleRow(n), HeaderRow(n)>> \o data
    ELSE <<TitleRow(n), TitleRow(n), HeaderRow(n)>> \o data

SheetRows(file) == Layout(file.layout, file.data, file.ncols)

RECURSIVE SeqsUpTo(_, _)
SeqsUpTo(S, n) ==
    IF n = 0 THEN {<<>>}
    ELSE LET shorter == SeqsUpTo(S, n - 1)
         IN  shorter \cup { Append(q, x) : q \in {t \in shorter : Len(t) = n - 1}, x \in S }

\* An unreadable or corrupt file: its content never reaches the program
BadFile == [readable |-> FALSE, layout |-> "A", ncols |-> NumFields, data |-> <<>>]

FilesUpTo(maxrows) ==
    {BadFile} \cup
    UNION { { [readable |-> TRUE, layout |-> kind, ncols |-> n, data |-> d] :
                kind \in {"A", "B"}, d \in SeqsUpTo(RowSet(n), maxrows) } : n \in ColCounts }

\* ------------------------------------------------------------------------
\* read_excel_file
\* ------------------------------------------------------------------------
HeaderDefault == 1

\* pd.read_excel(file_path, header=h): the rows below row h (counted from 0)
ReadExcel(rows, header) ==
    IF Len(rows) > header + 1 THEN SubSeq(rows, header + 2, Len(rows)) ELSE <<>>

\* lines 59-66: the first parsed row looks like a label row and the second
\* one holds header text
HeaderIsLower(df) ==
    /\ Len(df) > 0
    /\ \/ IsNa(Iloc(df[1], 0))
       \/ Strip(Str(Iloc(df[1], 0))) \in HeaderLabels
    /\ Len(df) > 1
    /\ \/ Contains(Str(Iloc(df[2], 0)), LiShu)
       \/ Contains(Str(Iloc(df[2], 0)), GuanXi)

\* lines 52-69: parse with the default header row, re-parse one row lower
ParseTable(rows) ==
    LET df == ReadExcel(rows, HeaderDefault)
    IN  IF HeaderIsLower(df) THEN ReadExcel(rows, HeaderDefault + 1) ELSE df

\* the 14 positional keys of a job, position 0..13
Keys == <<"r", "rc", "rn", "uc", "un", "pc", "pn", "pd", "et", "kr", "rh", "ed", "mj", "ot">>

AllKeys == {"c"} \cup {Keys[i] : i \in 1..Len(Keys)}

KeyIndex(key) == (CHOOSE i \in 1..Len(Keys) : Keys[i] = key) - 1

\* mutant: the text is not trimmed
FieldM(row, k) ==
    IF Len(row) > k /\ ~IsNa(Iloc(row, k)) THEN Str(Iloc(row, k)) ELSE <<>>

\* str(row.iloc[k]).strip() if len(row) > k and not pd.isna(row.iloc[k]) else ''
Field(row, k) ==
    IF Len(row) > k /\ ~IsNa(Iloc(row, k)) THEN Strip(Str(Iloc(row, k))) ELSE <<>>

MakeJob(row, city_name) ==
    [key \in AllKeys |-> IF key = "c" THEN city_name ELSE Field(row, KeyIndex(key))]

\* line 101
IsBlankRow(row) == IsNa(Iloc(row, 0)) \/ Strip(Str(Iloc(row, 0))) = <<>>

\* line 105
IsHeaderRow(row) ==
    Contains(Str(Iloc(row, 0)), LiShu) \/ Contains(Str(Iloc(row, 0)), GuanXi)

\* mutant: only the position name is looked at
KeepJobM(job) == job["pn"] # <<>>

\* line 129
KeepJob(job) == job["pn"] # <<>> \/ job["un"] # <<>>

\* one iteration of the row loop, lines 99-133
ProcessRow(jobs, row, city_name) ==
    IF IsBlankRow(row) THEN jobs
    ELSE IF IsHeaderRow(row) THEN jobs
    ELSE LET job == MakeJob(row, city_name)
         IN  IF KeepJob(job) THEN Append(jobs, job) ELSE jobs

RECURSIVE IterRows(_, _, _)
IterRows(jobs, df, city_name) ==
    IF df = <<>> THEN jobs
    ELSE IterRows(ProcessRow(jobs, Head(df), city_name), Tail(df), city_name)

\* the whole call: [] on any file-level error, the kept jobs otherwise
ReadExcelFile(file, city_name) ==
    IF ~file.readable THEN <<>>
    ELSE IterRows(<<>>, ParseTable(SheetRows(file)), city_name)

\* ------------------------------------------------------------------------
\* File names and discovery
\* ------------------------------------------------------------------------
XLS == <<".", "x", "l", "s">>
XLSX == <<".", "x", "l", "s", "x">>

\* The names a directory may hold: numbered city files, two numbered files of
\* one city, a dashed name without a number, a plain name, two .xlsx files
FileNames ==
    { <<"0", "1", "-", "A">> \o XLS,
      <<"0", "2", "-", "B">> \o XLS,
      <<"0", "3", "-", "A">> \o XLS,
      <<"C", "-", "D">> \o XLS,
      <<"E">> \o XLS,
      <<"0", "1", "-", "A">> \o XLSX,
      <<"0", "4", "-", "F">> \o XLSX }

\* the characters of file names in code-point order
CharOrder ==
    << "-", ".", "0", "1", "2", "3", "4", "A", "B", "C", "D", "E", "F", "l", "s", "x" >>

CharRank(ch) == CHOOSE i \in 1..Len(CharOrder) : CharOrder[i] = ch

\* a < b for strings
RECURSIVE StrLess(_, _)
StrLess(a, b) ==
    IF b = <<>> THEN FALSE
    ELSE IF a = <<>> THEN TRUE
    ELSE IF Head(a) = Head(b) THEN StrLess(Tail(a), Tail(b))
    ELSE CharRank(Head(a)) < CharRank(Head(b))

\* sorted(paths): ascending by name
RECURSIVE Sorted(_)
Sorted(S) ==
    IF S = {} THEN <<>>
    ELSE LET least == CHOOSE x \in S : \A y \in S \ {x} : StrLess(x, y)
         IN  <<least>> \o Sorted(S \ {least})

EndsWith(s, tail) ==
    Len(s) >= Len(tail) /\ SubSeq(s, Len(s) - Len(tail) + 1, Len(s)) = tail

\* excel_dir_path.glob('*' + ext) over the names of the directory
Glob(names, ext) == { n \in names : EndsWith(n, ext) }

\* mutant: both formats are taken
DiscoverFilesM(names) == Sorted(Glob(names, XLS) \cup Glob(names, XLSX))

\* lines 159-162
DiscoverFiles(names) ==
    LET xls == Sorted(Glob(names, XLS))
    IN  IF xls = <<>> THEN Sorted(Glob(names, XLSX)) ELSE xls

\* Path.stem: the name without its last suffix
Stem(name) ==
    LET dots == { i \in 2..Len(name) : name[i] = "." } IN
    IF dots = {} THEN name
    ELSE SubSeq(name, 1, (CHOOSE i \in dots : \A j \in dots : j <= i) - 1)

\* lines 168-171: city_name.split('-', 1)[1] when the stem holds a '-'
CityName(name) ==
    LET stem == Stem(name)
        dashes == { i \in 1..Len(stem) : stem[i] = "-" } IN
    IF dashes # {}
    THEN SubSeq(stem, (CHOOSE i \in dashes : \A j \in dashes : i <= j) + 1, Len(stem))
    ELSE stem

\* ------------------------------------------------------------------------
\* The contents the files of a directory are drawn from
\* ------------------------------------------------------------------------
Kept1 == DataRow(<<SP, "a">>, <<<<"u">>, <<"p">>>>, NumFields)
Kept2 == DataRow(<<"sheng", SP>>, <<NaN, <<"p", SP>>>>, NumFields)
Dropped == DataRow(NaN, <<<<"u">>, <<"p">>>>, NumFields)

SampleFiles ==
    { BadFile,
      [readable |-> TRUE, layout |-> "A", ncols |-> NumFields, data |-> <<>>],
      [readable |-> TRUE, layout |-> "A", ncols |-> NumFields, data |-> <<Kept1>>],
      [readable |-> TRUE, layout |-> "B", ncols |-> NumFields, data |-> <<Kept2, Dropped, Kept1>>] }

Directories ==
    UNION { [names -> SampleFiles] :
              names \in { s \in SUBSET FileNames : Cardinality(s) <= MaxFiles } }

\* ------------------------------------------------------------------------
\* Result
\* ------------------------------------------------------------------------
NoDoc == [data |-> <<>>, total |-> 0, cities |-> <<>>]

\* mutant: counts the distinct records
TotalM(jobs) == Cardinality({ jobs[i] : i \in 1..Len(jobs) })

\* len(all_jobs)
Total(jobs) == Len(jobs)

\* the orders list(set(...)) may give
Orderings(S) ==
    { q \in [1..Cardinality(S) -> S] : \A x \in S : \E i \in 1..Cardinality(S) : q[i] = x }

\* mutant: the list of c values without the set
CitiesM(jobs) == { [i \in 1..Len(jobs) |-> jobs[i]["c"]] }

\* list(set(job['c'] for job in all_jobs))
Cities(jobs) == Orderings({ jobs[i]["c"] : i \in 1..Len(jobs) })

\* lines 166-176 as a whole: the records of the files, in the order given
RECURSIVE ConcatJobs(_, _)
ConcatJobs(files, dir) ==
    IF files = <<>> THEN <<>>
    ELSE ReadExcelFile(dir[Head(files)], CityName(Head(files))) \o ConcatJobs(Tail(files), dir)

\* ------------------------------------------------------------------------
\* State
\* ------------------------------------------------------------------------
VARIABLES
    dir_exists,   \* excel_dir.exists()
    directory,    \* file name -> content, the files of the input directory
    pc,           \* position of main
    excel_files,  \* the discovered files, in processing order
    idx,          \* index of the next file of the loop
    all_jobs,     \* the growing aggregate
    result,       \* the dict built by process_all_excel_files
    output,       \* data.json: absent, stale (left by an earlier run) or written
    writes,       \* number of times data.json was opened for writing
    reads,        \* the names passed to read_excel_file, in call order
    rfile,        \* read_excel_file: the file being read
    df,           \* read_excel_file: the parsed table
    ridx,         \* read_excel_file: index of the next row of the loop
    jobs,         \* read_excel_file: the jobs kept so far
    rpc           \* read_excel_file: position

mainVars == <<dir_exists, directory, pc, excel_files, idx, all_jobs, result, output, writes, reads>>
readVars == <<rfile, df, ridx, jobs, rpc>>
vars == <<dir_exists, directory, pc, excel_files, idx, all_jobs, result, output, writes,
          reads, rfile, df, ridx, jobs, rpc>>

\* ------------------------------------------------------------------------
\* main and process_all_excel_files
\* ------------------------------------------------------------------------
MainIdle ==
    /\ dir_exists = FALSE /\ directory = <<>> /\ pc = "idle" /\ excel_files = <<>>
    /\ idx = 1 /\ all_jobs = <<>> /\ result = NoDoc
    /\ output = [kind |-> "absent", doc |-> NoDoc] /\ writes = 0 /\ reads = <<>>

ReadIdle ==
    /\ rfile = BadFile /\ df = <<>> /\ ridx = 1 /\ jobs = <<>> /\ rpc = "idle"

Init ==
    /\ dir_exists \in BOOLEAN
    /\ directory \in (IF dir_exists THEN Directories ELSE {<<>>})
    /\ pc = "main"
    /\ excel_files = <<>>
    /\ idx = 1
    /\ all_jobs = <<>>
    /\ result = NoDoc
    /\ output \in {[kind |-> "absent", doc |-> NoDoc], [kind |-> "stale", doc |-> NoDoc]}
    /\ writes = 0
    /\ reads = <<>>
    /\ ReadIdle

\* mutant: main goes on without the directory
CheckDirM ==
    /\ pc = "main"
    /\ pc' = "discover"
    /\ UNCHANGED <<dir_exists, directory, excel_files, idx, all_jobs, result, output,
                   writes, reads>>
    /\ UNCHANGED <<rfile, df, ridx, jobs, rpc>>

\* lines 207-209: the directory test of main
CheckDir ==
    /\ pc = "main"
    /\ pc' = IF ~dir_exists THEN "done" ELSE "discover"
    /\ UNCHANGED <<dir_exists, directory, excel_files, idx, all_jobs, result, output,
                   writes, reads>>
    /\ UNCHANGED readVars

\* lines 155-164
Discover ==
    /\ pc = "discover"
    /\ all_jobs' = <<>>
    /\ excel_files' = DiscoverFiles(DOMAIN directory)
    /\ idx' = 1
    /\ pc' = "loop"
    /\ UNCHANGED <<dir_exists, directory, result, output, writes, reads>>
    /\ UNCHANGED readVars

\* mutant: the jobs of a file are put in front
ExtendM(list, more) == more \o list

\* all_jobs.extend(jobs)
Extend(list, more) == list \o more

\* mutant: the error of an unreadable file is not caught and ends the run
ProcessFileM ==
    /\ pc = "loop"
    /\ idx <= Len(excel_files)
    /\ LET excel_file == excel_files[idx]
           city_name == CityName(excel_file)
       IN  /\ all_jobs' = all_jobs \o ReadExcelFile(directory[excel_file], city_name)
           /\ reads' = Append(reads, excel_file)
           /\ pc' = IF directory[excel_file].readable THEN pc ELSE "done"
    /\ idx' = idx + 1
    /\ UNCHANGED <<dir_exists, directory, excel_files, result, output, writes>>
    /\ UNCHANGED <<rfile, df, ridx, jobs, rpc>>

\* lines 166-176: one iteration of the file loop
ProcessFile ==
    /\ pc = "loop"
    /\ idx <= Len(excel_files)
    /\ LET excel_file == excel_files[idx]
           city_name == CityName(excel_file)
       IN  /\ all_jobs' = Extend(all_jobs, ReadExcelFile(directory[excel_file], city_name))
           /\ reads' = Append(reads, excel_file)
    /\ idx' = idx + 1
    /\ UNCHANGED <<dir_exists, directory, pc, excel_files, result, output, writes>>
    /\ UNCHANGED readVars

\* lines 178-186
BuildResult ==
    /\ pc = "loop"
    /\ idx > Len(excel_files)
    /\ \E cities \in Cities(all_jobs) :
          result' = [data |-> all_jobs, total |-> Total(all_jobs), cities |-> cities]
    /\ pc' = "write"
    /\ UNCHANGED <<dir_exists, directory, excel_files, idx, all_jobs, output, writes, reads>>
    /\ UNCHANGED readVars

\* lines 215-218
WriteOutput ==
    /\ pc = "write"
    /\ output' = [kind |-> "written", doc |-> result]
    /\ writes' = writes + 1
    /\ pc' = "done"
    /\ UNCHANGED <<dir_exists, directory, excel_files, idx, all_jobs, result, reads>>
    /\ UNCHANGED readVars

Next == CheckDir \/ Discover \/ ProcessFile \/ BuildResult \/ WriteOutput

Spec == Init /\ [][Next]_vars

\* ------------------------------------------------------------------------
\* read_excel_file, row by row
\* ------------------------------------------------------------------------
RCity == <<"A">>

InitRead ==
    /\ MainIdle
    /\ rfile \in FilesUpTo(MaxRows)
    /\ df = <<>>
    /\ ridx = 1
    /\ jobs = <<>>
    /\ rpc = "open"

\* lines 137-139: the file cannot be read or parsed
ReadFail ==
    /\ rpc = "open"
    /\ ~rfile.readable
    /\ jobs' = <<>>
    /\ rpc' = "done"
    /\ UNCHANGED <<rfile, df, ridx>>
    /\ UNCHANGED mainVars

\* lines 52-95
ReadParse ==
    /\ rpc = "open"
    /\ rfile.readable
    /\ df' = ParseTable(SheetRows(rfile))
    /\ jobs' = <<>>
    /\ ridx' = 1
    /\ rpc' = "rows"
    /\ UNCHANGED rfile
    /\ UNCHANGED mainVars

\* lines 99-133
ReadRow ==
    /\ rpc = "rows"
    /\ ridx <= Len(df)
    /\ jobs' = ProcessRow(jobs, df[ridx], RCity)
    /\ ridx' = ridx + 1
    /\ UNCHANGED <<rfile, df, rpc>>
    /\ UNCHANGED mainVars

\* line 135
ReadReturn ==
    /\ rpc = "rows"
    /\ ridx > Len(df)
    /\ rpc' = "done"
    /\ UNCHANGED <<rfile, df, ridx, jobs>>
    /\ UNCHANGED mainVars

NextRead == ReadFail \/ ReadParse \/ ReadRow \/ ReadReturn

SpecRead == InitRead /\ [][NextRead]_vars

\* ------------------------------------------------------------------------
\* Properties of the result (under Spec)
\* ------------------------------------------------------------------------

\* process_all_excel_files has returned
Returned == pc = "write" \/ (pc = "done" /\ writes = 1)

\* C1: for every set of input files, including none and including files that
\* fail to read, the returned result has total equal to the number of records
\* in data; so has the document written to data.json.
C1_TotalIsLen ==
    /\ Returned => result.total = Len(result.data)
    /\ output.kind = "written" => output.doc.total = Len(output.doc.data)

C1_Witness ==
    /\ pc = "done"
    /\ result.total >= 3
    /\ \E f \in DOMAIN directory : ~directory[f].readable

\* C2: cities holds exactly the distinct c values of the records of data: every
\* city of a record is listed, none twice, and none that has no record.
C2_CitiesExact ==
    Returned =>
        /\ { result.cities[i] : i \in 1..Len(result.cities) }
             = { result.data[j]["c"] : j \in 1..Len(result.data) }
        /\ \A i, j \in 1..Len(result.cities) :
             i # j => result.cities[i] # result.cities[j]

C2_Witness ==
    /\ Returned
    /\ Len(result.cities) >= 2
    /\ Len(result.data) > Len(result.cities)
    /\ \E i \in 1..Len(reads) :
         /\ directory[reads[i]].readable
         /\ directory[reads[i]].data = <<>>

\* C5: when a discovered file is unreadable or fails to parse, the run still
\* ends with the output written: every discovered file, those after the failing
\* one included, is passed to read_excel_file, and data is the concatenation of
\* the records of the other discovered files, as if the failing file were not
\* in the sequence.
C5_BadFileSkipped ==
    (\E f \in DOMAIN directory : ~directory[f].readable) =>
        /\ pc = "loop" => reads = SubSeq(excel_files, 1, idx - 1)
        /\ pc = "done" =>
             LET Readable(f) == directory[f].readable IN
             /\ writes = 1
             /\ output.kind = "written"
             /\ reads = excel_files
             /\ output.doc.data = ConcatJobs(SelectSeq(excel_files, Readable), directory)

C5_Witness ==
    /\ pc = "done"
    /\ output.kind = "written"
    /\ Len(output.doc.data) >= 1
    /\ \E i, j \in 1..Len(reads) :
         /\ i < j
         /\ ~directory[reads[i]].readable
         /\ ReadExcelFile(directory[reads[j]], CityName(reads[j])) # <<>>

\* C6: when the input directory does not exist, main stops before any work:
\* no file is discovered or read and data.json is neither written nor
\* overwritten; when it exists, data.json is written exactly once, with the
\* result, after every discovered file has been processed.
C6_MissingDirNoOutput ==
    /\ ~dir_exists =>
         /\ excel_files = <<>>
         /\ reads = <<>>
         /\ writes = 0
         /\ output.kind # "written"
         /\ pc \in {"main", "done"}
    /\ writes <= 1
    /\ writes = 1 =>
         /\ dir_exists
         /\ reads = excel_files
         /\ idx > Len(excel_files)
         /\ output = [kind |-> "written", doc |-> result]
    /\ (dir_exists /\ pc = "done") => writes = 1

C6_Witness ==
    /\ ~dir_exists
    /\ pc = "done"
    /\ output.kind = "stale"

\* C7 (as claimed): the city label of every record is its file's name with the
\* extension removed and a leading numeric "NN-" prefix removed when present; a
\* name without such a prefix gives its stem unchanged.
C7_NumericPrefixOnly ==
    LET Digits == {"0", "1", "2", "3", "4", "5", "6", "7", "8", "9"}
        NoExt(name) ==
            IF SubSeq(name, Len(name) - 3, Len(name)) = <<".", "x", "l", "s">>
            THEN SubSeq(name, 1, Len(name) - 4)
            ELSE SubSeq(name, 1, Len(name) - 5)
        Lead(stem) ==
            CHOOSE k \in 0..Len(stem) :
                /\ \A i \in 1..k : stem[i] \in Digits
                /\ k < Len(stem) => stem[k + 1] \notin Digits
        Label(name) ==
            LET stem == NoExt(name)
                k == Lead(stem)
            IN  IF k >= 1 /\ k < Len(stem) /\ stem[k + 1] = "-"
                THEN SubSeq(stem, k + 2, Len(stem))
                ELSE stem
    IN  \A i \in 1..Len(reads) :
            LET recs == ReadExcelFile(directory[reads[i]], CityName(reads[i]))
            IN  \A j \in 1..Len(recs) : recs[j]["c"] = Label(reads[i])

\* C9 (as claimed): data is city-grouped: two records with the same c have no
\* record with another c between them.
C9_CityGrouped ==
    Returned =>
        \A i, j, k \in 1..Len(result.data) :
            (i < j /\ j < k /\ result.data[i]["c"] = result.data[k]["c"])
                => result.data[j]["c"] = result.data[i]["c"]

\* C9 (amended): data is the concatenation of the per-file record lists in
\* discovery order, and it is city-grouped whenever no two files that yield
\* records have the same city label.
C9_ConcatInOrder ==
    Returned =>
        LET Yields(f) == ReadExcelFile(directory[f], CityName(f)) # <<>>
            yielding == { f \in DOMAIN directory : f \in {excel_files[i] : i \in 1..Len(excel_files)} /\ Yields(f) }
        IN  /\ result.data = ConcatJobs(excel_files, directory)
            /\ (\A f, g \in yielding : f # g => CityName(f) # CityName(g)) =>
                 \A i, j, k \in 1..Len(result.data) :
                     (i < j /\ j < k /\ result.data[i]["c"] = result.data[k]["c"])
                         => result.data[j]["c"] = result.data[i]["c"]

C9_Witness ==
    /\ Returned
    /\ Len(excel_files) >= 2
    /\ Len(result.data) >= 4
    /\ Len(result.cities) = 2
    /\ \A i, j \in 1..Len(excel_files) :
         i # j => CityName(excel_files[i]) # CityName(excel_files[j])

C4_ShortRowsKeepAllKeys ==
    [][ (rpc = "rows" /\ ridx' = ridx + 1 /\ rfile.ncols < 14 /\ jobs' # jobs) =>
          LET row == df[ridx]
              job == jobs'[Len(jobs')]
              keys == <<"r", "rc", "rn", "uc", "un", "pc", "pn", "pd", "et", "kr",
                        "rh", "ed", "mj", "ot">>
          IN  /\ DOMAIN job = {"c", "r", "rc", "rn", "uc", "un", "pc", "pn", "pd", "et",
                               "kr", "rh", "ed", "mj", "ot"}
              /\ job["c"] = RCity
              /\ \A k \in 1..14 :
                   job[keys[k]] = IF k <= rfile.ncols /\ row[k] # NaN
                                  THEN Strip(row[k]) ELSE <<>> ]_vars

C4_Witness ==
    /\ rpc = "done"
    /\ rfile.ncols = 6
    /\ Len(jobs) = 2
    /\ jobs[1]["un"] = <<"u">>
    /\ jobs[1]["pn"] = <<>>
    /\ jobs[1]["rn"] = <<>>
    /\ jobs[1]["pc"] = <<"F">>
    /\ jobs[1]["ot"] = <<>>

\* C8 (as claimed): for any sequence of data rows, the file with the header in
\* the default row and the file with the same data rows and the header one row
\* lower yield the same list of records.
C8_LayoutsAgree ==
    (rpc = "done" /\ rfile.readable) =>
        jobs = ReadExcelFile([rfile EXCEPT !.layout = IF @ = "A" THEN "B" ELSE "A"], RCity)

====
